---------------------------- MODULE Spec2Model ----------------------------
(***************************************************************************)
(* A model of src/mp_api_cli.py: the MarketingPlatformClient request       *)
(* executor (_request), the pagination iterator (iter_lists) and the       *)
(* resource operations that validate their arguments and dispatch through  *)
(* the request executor.                                                   *)
(*                                                                         *)
(* One invocation of a client operation is in progress at a time (the      *)
(* program is single-threaded); when it has ended (pc = "done") and main   *)
(* has printed its result or its error (pc = "exited"), the next           *)
(* invocation may start.  The remote API is the environment: each HTTP     *)
(* call is answered by a response chosen from a small set, or by a         *)
(* transport exception.                                                    *)
(***************************************************************************)
EXTENDS Integers, Sequences, FiniteSets, TLC

VARIABLES
    pc,           \* "idle" | "attempt" (top of the for loop of _request) | "yield" (iter_lists suspended/resuming) | "done" | "exited"
    op,           \* the client operation being executed
    args,         \* its arguments
    outcome,      \* how the operation ended: a returned value or a raised exception
    req,          \* _request: method, url, params, json_body of the current call
    max_retries,  \* _request: parameter max_retries
    attempt,      \* _request: loop variable attempt
    backoff,      \* _request: local backoff
    resp,         \* _request: local resp, the last response received
    sleeps,       \* the durations passed to time.sleep by the current _request call, in order
    httpCalls,    \* session.request calls issued by the current _request call
    only429,      \* every response the current _request call has slept on so far was a 429
    requests,     \* _request calls entered by the current operation (counted up to MaxLog + 1)
    offset,       \* iter_lists: local offset
    items,        \* iter_lists: local items (the current page)
    idx,          \* iter_lists: position of the for loop over items (next item to yield)
    out,          \* the items yielded so far (what list(...) has collected), of the first MaxLog pages
    pages,        \* the lengths of the pages iter_lists received so far (the first MaxLog of them)
    debug,        \* the global debug flag of the module
    stdout,       \* the lines printed so far (the request traces of the first MaxLog _request calls)
    exit_status   \* the exit status of the process, None while it runs

vars == <<pc, op, args, outcome, req, max_retries, attempt, backoff, resp,
          sleeps, httpCalls, only429, requests,
          offset, items, idx, out, pages, debug, stdout, exit_status>>

requestVars == <<req, max_retries, attempt, backoff, resp, sleeps, httpCalls, only429>>
iterVars    == <<offset, items, idx, out, pages>>
mainVars    == <<debug, stdout, exit_status>>

-----------------------------------------------------------------------------
(* Bounds of the model *)

\* largest max_retries passed to a direct _request call
MaxRetriesBound == 7
\* the remote collection: pages requested at an offset >= MaxOffset are empty
MaxOffset == 3
\* most items the remote puts in one page
MaxPageLen == 2
\* largest page_size given to iter_lists
MaxPageSize == 2

MaxLog == MaxOffset + 1

Min(a, b) == IF a < b THEN a ELSE b

-----------------------------------------------------------------------------
(* Python values *)

None    == [t |-> "none"]
I(n)    == [t |-> "int", v |-> n]
S(s)    == [t |-> "str", v |-> s]
B(b)    == [t |-> "bool", v |-> b]
L(seq)  == [t |-> "list", v |-> seq]
D(f)    == [t |-> "dict", v |-> f]

EmptyDict == [k \in {} |-> None]

\* bool(x): the truth value Python's `if x` / `not x` / `x or y` gives x
Truthy(x) ==
    IF x.t = "none" THEN FALSE
    ELSE IF x.t = "bool" THEN x.v
    ELSE IF x.t = "int" THEN x.v # 0
    ELSE IF x.t = "str" THEN x.v # ""
    ELSE IF x.t = "list" THEN Len(x.v) # 0
    ELSE DOMAIN x.v # {}

\* d[k] = v on a dict under construction
Put(d, k, v) == (k :> v) @@ d

\* str(b).lower() of a bool
BoolStr(b) == IF b THEN S("true") ELSE S("false")

-----------------------------------------------------------------------------
(* The remote API *)

\* status codes the remote answers with: the boundaries of the 2xx range,
\* 429, the six terminal codes and some codes outside all of these
Statuses == {199, 200, 299, 300, 400, 401, 403, 404, 409, 429, 500, 503}

\* resp.json() of a body that is JSON: a dict with a "data" key that is
\* absent, null or a list, or a JSON value that is no dict
NoData   == [isdict |-> TRUE,  has |-> FALSE, data |-> None]
NullData == [isdict |-> TRUE,  has |-> TRUE,  data |-> None]
NotADict == [isdict |-> FALSE, has |-> FALSE, data |-> None]
Page(p, n) == [isdict |-> TRUE, has |-> TRUE, data |-> L([j \in 1..n |-> <<p, j>>])]

\* a response body: its raw text either parses as JSON (to doc) or does not
Wellformed(doc) == [wellformed |-> TRUE, doc |-> doc]
Malformed       == [wellformed |-> FALSE, doc |-> NoData]

NoResp == [status |-> 0, body |-> Malformed]

-----------------------------------------------------------------------------
(* Outcomes of an operation *)

NoOutcome      == [kind |-> "none", val |-> None]
Returned(v)    == [kind |-> "return", val |-> v]
Raised(k, msg) == [kind |-> k, val |-> msg]

\* the operation ends: it returns a value or an exception leaves it
Finish(o) == pc' = "done" /\ outcome' = o

-----------------------------------------------------------------------------
(* MarketingPlatformClient._request *)

\* MP_API_BASE, with base_url.rstrip("/") applied by __init__
base_url == "https://api.mailmailmail.net/v2.0"

\* url = f"{self.base_url}{path}"
Url(path) == base_url \o path

NoReq == [method |-> "", path |-> "", url |-> "", params |-> None, json_body |-> None]

\* the codes of `resp.status_code in (400, 401, 403, 404, 409, 500)`
TerminalCodes == {400, 401, 403, 404, 409, 500}

\* resp.status_code == 429
IsRateLimited(status) == status = 429

\* 200 <= resp.status_code < 300
IsSuccess(status) == 200 <= status /\ status < 300

\* a terminal code left out of the tuple
IsTerminalError_No409(status) == status \in TerminalCodes \ {409}

\* resp.status_code in (400, 401, 403, 404, 409, 500)
IsTerminalError(status) == status \in TerminalCodes

\* max_retries: int = 5
DefaultMaxRetries == 5

\* the doubling without its cap
NextBackoff_NoCap(b) == b * 2

\* backoff = min(backoff * 2, 30)
NextBackoff(b) == Min(b * 2, 30)

\* a range that runs one attempt too far
InRange_OffByOne(a, mr) == 1 <= a /\ a <= mr + 1

\* for attempt in range(1, max_retries + 1): is `a` a value of the range
InRange(a, mr) == 1 <= a /\ a < mr + 1

\* raise MPError(f"Failed after {max_retries} attempts: {url}")
ExhaustedError(mr, url) == Raised("MPError", [error |-> "Failed after N attempts", N |-> mr, url |-> url])

\* raise MPError(f"{resp.status_code} error from {url}: {resp.text}")
StatusError(r, url) == Raised("MPError", [error |-> "status error from", status |-> r.status, url |-> url, text |-> r.body])

\* raise MPError(f"Non-JSON response from {url}")
NonJsonError(url) == Raised("MPError", [error |-> "Non-JSON response from", url |-> url])

\* what the remote may put in the body of a response to request rq: for a
\* listing below MaxOffset any page of at most MaxPageLen items and at most
\* one item more than the limit asked for, an empty page at or beyond
\* MaxOffset; item j of the p-th page received is <<p, j>>
Bodies(rq) ==
    IF rq.method = "GET" /\ rq.path = "/Lists"
    THEN {Malformed, Wellformed(NoData), Wellformed(NullData), Wellformed(NotADict)}
         \cup {Wellformed(Page(Len(pages) + 1, n)) :
                 n \in 0..(IF rq.params.v["offset"].v >= MaxOffset THEN 0
                           ELSE Min(MaxPageLen, rq.params.v["limit"].v + 1))}
    ELSE {Malformed, Wellformed(Page(1, 1))}

\* the body of a 4xx/5xx response that reports an error: some text, or a
\* JSON object
ErrorBodies == {Malformed, Wellformed(NoData)}

\* the responses the remote may give to request rq: a 2xx with a body, an
\* error report, or an interim, redirect or throttling response with text
Responses(rq) ==
    [status : {200, 299}, body : Bodies(rq)]
        \cup [status : {400, 401, 403, 404, 409, 500}, body : ErrorBodies]
        \cup [status : {199, 300, 429, 503}, body : {Malformed}]

\* a line of standard output
Line(kind, v) == [line |-> kind, v |-> v]

\* the parameters printed whether or not there are any
DebugTrace_AlwaysParams(method, url, params, json_body) ==
    <<Line("Request", <<method, url>>), Line("Params", params)>>
        \o (IF Truthy(json_body) THEN <<Line("Body", json_body)>> ELSE <<>>)

\* if debug: print("Request: ..."); if params: print("Params: ...");
\* if json_body: print("Body: ...")
DebugTrace(method, url, params, json_body) ==
    <<Line("Request", <<method, url>>)>>
        \o (IF Truthy(params) THEN <<Line("Params", params)>> ELSE <<>>)
        \o (IF Truthy(json_body) THEN <<Line("Body", json_body)>> ELSE <<>>)

\* entry of _request up to the first evaluation of the for loop's range:
\* url, the debug trace, backoff = 1.0, and the raise after the loop when
\* the range is empty
Enter_request(method, path, params, json_body, mr, nreq) ==
    /\ req' = [method |-> method, path |-> path, url |-> Url(path),
               params |-> params, json_body |-> json_body]
    /\ stdout' = IF debug' /\ nreq <= MaxLog
                 THEN stdout \o DebugTrace(method, Url(path), params, json_body)
                 ELSE stdout
    /\ max_retries' = mr
    /\ backoff' = 1
    /\ attempt' = 1
    /\ resp' = NoResp
    /\ sleeps' = <<>>
    /\ httpCalls' = 0
    /\ only429' = TRUE
    /\ requests' = nreq
    /\ IF InRange(1, mr)
       THEN pc' = "attempt" /\ outcome' = NoOutcome
       ELSE Finish(ExhaustedError(mr, Url(path)))

\* the sleep skipped when no attempt is left
SleepAndRetry_NoFinalSleep ==
    /\ IF InRange(attempt + 1, max_retries)
       THEN /\ sleeps' = Append(sleeps, backoff)
            /\ backoff' = NextBackoff(backoff)
            /\ attempt' = attempt + 1 /\ pc' = "attempt" /\ UNCHANGED outcome
       ELSE /\ UNCHANGED <<sleeps, backoff, attempt>>
            /\ Finish(ExhaustedError(max_retries, req.url))
    /\ UNCHANGED iterVars

\* time.sleep(backoff); backoff = min(backoff * 2, 30); then the next value
\* of the range, or the raise after the loop when there is none
SleepAndRetry ==
    /\ sleeps' = Append(sleeps, backoff)
    /\ backoff' = NextBackoff(backoff)
    /\ IF InRange(attempt + 1, max_retries)
       THEN attempt' = attempt + 1 /\ pc' = "attempt" /\ UNCHANGED outcome
       ELSE UNCHANGED attempt /\ Finish(ExhaustedError(max_retries, req.url))
    /\ UNCHANGED iterVars

\* the same without `if not items: break`
IterReceive_NoBreak(data) ==
    IF ~data.isdict
    THEN /\ Finish(Raised("AttributeError", [error |-> "object has no attribute 'get'"]))
         /\ UNCHANGED iterVars
    ELSE LET got == IF data.has /\ Truthy(data.data) THEN data.data.v ELSE <<>>
         IN  /\ items' = got
             /\ pages' = IF requests <= MaxLog THEN Append(pages, Len(got)) ELSE pages
             /\ idx' = 1
             /\ UNCHANGED <<offset, out>>
             /\ pc' = "yield" /\ UNCHANGED outcome

\* iter_lists after get_lists returned data: items = data.get("data") or [];
\* if not items: break; otherwise the for loop over items starts
IterReceive(data) ==
    IF ~data.isdict
    THEN /\ Finish(Raised("AttributeError", [error |-> "object has no attribute 'get'"]))
         /\ UNCHANGED iterVars
    ELSE LET got == IF data.has /\ Truthy(data.data) THEN data.data.v ELSE <<>>
         IN  /\ items' = got
             /\ pages' = IF requests <= MaxLog THEN Append(pages, Len(got)) ELSE pages
             /\ idx' = 1
             /\ UNCHANGED <<offset, out>>
             /\ IF got = <<>>
                THEN Finish(Returned(L(out)))
                ELSE pc' = "yield" /\ UNCHANGED outcome

\* return resp.json()  /  except json.JSONDecodeError: raise MPError(...)
ReturnJson(r) ==
    IF r.body.wellformed
    THEN IF op = "iter_lists"
         THEN IterReceive(r.body.doc)
         ELSE Finish(Returned(r.body.doc)) /\ UNCHANGED iterVars
    ELSE Finish(NonJsonError(req.url)) /\ UNCHANGED iterVars

\* the same with a fixed delay of its own for unexpected statuses
HandleResponse_FixedDelay(r) ==
    IF IsRateLimited(r.status)
    THEN SleepAndRetry /\ UNCHANGED only429
    ELSE IF IsSuccess(r.status)
    THEN ReturnJson(r) /\ UNCHANGED <<attempt, backoff, sleeps, only429>>
    ELSE IF IsTerminalError(r.status)
    THEN /\ Finish(StatusError(r, req.url))
         /\ UNCHANGED <<attempt, backoff, sleeps, only429, iterVars>>
    ELSE /\ sleeps' = Append(sleeps, 1)
         /\ UNCHANGED <<backoff, iterVars>>
         /\ IF InRange(attempt + 1, max_retries)
            THEN attempt' = attempt + 1 /\ pc' = "attempt" /\ UNCHANGED outcome
            ELSE UNCHANGED attempt /\ Finish(ExhaustedError(max_retries, req.url))
         /\ only429' = FALSE

\* the body of the for loop of _request for the response r
HandleResponse(r) ==
    IF IsRateLimited(r.status)
    THEN SleepAndRetry /\ UNCHANGED only429
    ELSE IF IsSuccess(r.status)
    THEN ReturnJson(r) /\ UNCHANGED <<attempt, backoff, sleeps, only429>>
    ELSE IF IsTerminalError(r.status)
    THEN /\ Finish(StatusError(r, req.url))
         /\ UNCHANGED <<attempt, backoff, sleeps, only429, iterVars>>
    ELSE SleepAndRetry /\ only429' = FALSE

\* one iteration of the for loop: the HTTP call is answered by a response
Attempt ==
    /\ pc = "attempt"
    /\ \E r \in Responses(req) :
         /\ resp' = r
         /\ httpCalls' = httpCalls + 1
         /\ HandleResponse(r)
    /\ UNCHANGED <<op, args, req, max_retries, requests, mainVars>>

\* a transport failure handled like an unexpected status: sleep and retry
TransportFailure_Retried ==
    /\ pc = "attempt"
    /\ httpCalls' = httpCalls + 1
    /\ SleepAndRetry
    /\ only429' = FALSE
    /\ UNCHANGED <<op, args, req, max_retries, requests, resp, mainVars>>

\* one iteration of the for loop: session.request raises instead of
\* returning a response (nothing in _request catches it)
TransportFailure ==
    /\ pc = "attempt"
    /\ httpCalls' = httpCalls + 1
    /\ \E e \in {"ConnectionError", "Timeout"} : Finish(Raised(e, [error |-> "transport", url |-> req.url]))
    /\ UNCHANGED <<op, args, req, max_retries, requests, attempt, backoff, resp,
                   sleeps, only429, iterVars, mainVars>>

-----------------------------------------------------------------------------
(* MarketingPlatformClient.iter_lists *)

\* get_lists: params = {"listid": listid, "limit": limit, "offset": offset}
Req_get_lists(a) ==
    [method |-> "GET", path |-> "/Lists", json_body |-> None,
     params |-> D(("listid" :> a.listid) @@ ("limit" :> a.limit) @@ ("offset" :> a.offset))]

\* a page one item short of page_size not taken for the last
IsLastPage_OffByOne(n, page_size) == n < page_size - 1

\* a page of exactly page_size items taken for the last, too
IsLastPage_FullPageToo(n, page_size) == n <= page_size

\* if len(items) < page_size: break
IsLastPage(n, page_size) == n < page_size

\* the offset left where it is
NextOffset_Stuck(o, page_size) == o

\* the offset advanced by one instead of by a page
NextOffset_ByOne(o, page_size) == o + 1

\* offset += page_size
NextOffset(o, page_size) == o + page_size

\* the for loop over items: yield item
IterYield ==
    /\ pc = "yield"
    /\ idx <= Len(items)
    /\ out' = IF requests <= MaxLog THEN Append(out, items[idx]) ELSE out
    /\ idx' = idx + 1
    /\ UNCHANGED <<pc, op, args, outcome, requestVars, requests, offset, items, pages,
                   mainVars>>

\* after the last item of the page: break on a short page, otherwise
\* offset += page_size and the next get_lists call
IterAdvance ==
    /\ pc = "yield"
    /\ idx > Len(items)
    /\ UNCHANGED <<debug, exit_status>>
    /\ IF IsLastPage(Len(items), args.page_size.v)
       THEN /\ Finish(Returned(L(out)))
            /\ UNCHANGED <<requestVars, requests, offset, stdout>>
       ELSE LET r == Req_get_lists([listid |-> args.listid, limit |-> args.page_size,
                                    offset |-> I(NextOffset(offset, args.page_size.v))])
            IN  /\ offset' = NextOffset(offset, args.page_size.v)
                /\ Enter_request(r.method, r.path, r.params, r.json_body,
                                 DefaultMaxRetries, Min(requests + 1, MaxLog + 1))
    /\ UNCHANGED <<op, args, items, idx, out, pages>>

-----------------------------------------------------------------------------
(* Invocation of a client operation *)

Ok == "ok"

\* a check of the arguments raised ValueError(e): no _request call is made
Reject(e) ==
    /\ Finish(Raised("ValueError", [error |-> e]))
    /\ req' = NoReq
    /\ max_retries' = DefaultMaxRetries
    /\ attempt' = 1
    /\ backoff' = 1
    /\ resp' = NoResp
    /\ sleeps' = <<>>
    /\ httpCalls' = 0
    /\ only429' = TRUE
    /\ requests' = 0
    /\ UNCHANGED stdout

\* a new operation o starts with arguments from A: Check(a) is the error
\* its argument checks raise (Ok when they pass), Build(a) the request it
\* hands to _request (main, src/mp_api_cli.py lines 632-786, calls the method)
Invoke(o, A, Check(_), Build(_)) ==
    /\ pc = "idle"
    /\ \E d \in BOOLEAN : debug' = d
    /\ UNCHANGED exit_status
    /\ \E a \in A :
         /\ op' = o
         /\ args' = a
         /\ offset' = 0
         /\ items' = <<>>
         /\ idx' = 1
         /\ out' = <<>>
         /\ pages' = <<>>
         /\ IF Check(a) # Ok
            THEN Reject(Check(a))
            ELSE LET r == Build(a)
                 IN  Enter_request(r.method, r.path, r.params, r.json_body,
                                   DefaultMaxRetries, 1)

NoCheck(a) == Ok

\* argument values: identifiers, strings, lists
Ids     == {None, I(0), I(7)}
Strs    == {None, S(""), S("x")}
Lists   == {None, L(<<>>), L(<<1>>)}

-----------------------------------------------------------------------------
(* Lists *)

get_lists ==
    Invoke("get_lists",
           [listid : {I(0)}, limit : {I(MaxPageLen)}, offset : {I(0), I(MaxOffset)}],
           NoCheck, Req_get_lists)

\* the first get_lists call of iter_lists, at offset = 0
Req_iter_lists(a) ==
    Req_get_lists([listid |-> a.listid, limit |-> a.page_size, offset |-> I(0)])

iter_lists ==
    Invoke("iter_lists",
           [listid : {I(0)}, page_size : {I(n) : n \in 0..MaxPageSize}],
           NoCheck, Req_iter_lists)

Req_create_list(a) ==
    [method |-> "POST", path |-> "/Lists", params |-> None, json_body |-> a.fields]

create_list ==
    Invoke("create_list",
           [fields : {D(("name" :> S("x")) @@ ("description" :> S("x")))}],
           NoCheck, Req_create_list)

-----------------------------------------------------------------------------
(* Stats *)

Req_get_opens(a) ==
    [method |-> "GET", path |-> "/Stats/GetOpens", json_body |-> None,
     params |-> D("statid" :> a.statid)]

get_opens == Invoke("get_opens", [statid : {I(7)}], NoCheck, Req_get_opens)

Req_get_clicks(a) ==
    [method |-> "GET", path |-> "/Stats/GetClicks", json_body |-> None,
     params |-> D(("statid" :> a.statid) @@ ("count_only" :> BoolStr(a.count_only))
                  @@ ("unique_only" :> BoolStr(a.unique_only)))]

get_clicks ==
    Invoke("get_clicks", [statid : {I(7)}, count_only : {TRUE}, unique_only : {FALSE}],
           NoCheck, Req_get_clicks)

\* the optional search_* parameters, added to params as the code adds them
WithSearch(p, a) ==
    LET p1 == IF Truthy(a.search_type) THEN Put(p, "search_type", a.search_type) ELSE p
        p2 == IF a.search_start_date # None
              THEN Put(p1, "search_start_date", a.search_start_date) ELSE p1
    IN  IF a.search_end_date # None
        THEN Put(p2, "search_end_date", a.search_end_date) ELSE p2

\* the values of search_type the documentation allows, and one it does not
SearchTypes == {"before", "after", "between", "not", "exact", "exactly"}
SearchArgs  == {None, S(""), S("exactly"), S("bogus")}

\* if not listid: raise ValueError("listid is required")
Check_get_unsubscribes_by_list(a) ==
    IF ~Truthy(a.listid) THEN "listid is required" ELSE Ok

Req_get_unsubscribes_by_list(a) ==
    [method |-> "GET", path |-> "/Stats/GetUnsubscribesByList", json_body |-> None,
     params |-> D(WithSearch(("listid" :> a.listid) @@ ("count_only" :> BoolStr(a.count_only))
                             @@ ("limit" :> a.limit) @@ ("offset" :> a.offset), a))]

get_unsubscribes_by_list ==
    Invoke("get_unsubscribes_by_list",
           [listid : Ids, count_only : {FALSE}, search_type : SearchArgs,
            search_start_date : {None}, search_end_date : {None, S("2020-01-10")},
            limit : {I(100)}, offset : {I(0)}],
           Check_get_unsubscribes_by_list, Req_get_unsubscribes_by_list)

-----------------------------------------------------------------------------
(* Send *)

Req_send_newsletter(a) ==
    [method |-> "POST", path |-> "/Send/SendNewsletter", params |-> None,
     json_body |-> D("newsletterid" :> a.newsletterid)]

send_newsletter ==
    Invoke("send_newsletter", [newsletterid : {I(7)}], NoCheck, Req_send_newsletter)

Req_schedule_send_newsletter_to_list(a) ==
    LET payload == ("newsletterid" :> a.newsletterid) @@ ("listid" :> a.listid)
    IN  [method |-> "POST", path |-> "/Send/ScheduleSendNewsletterToList", params |-> None,
         json_body |-> D(IF a.send_time_ts # None
                         THEN Put(payload, "send_time", a.send_time_ts) ELSE payload)]

schedule_send_newsletter_to_list ==
    Invoke("schedule_send_newsletter_to_list",
           [newsletterid : {I(7)}, listid : {I(0), I(7)}, send_time_ts : {I(1717200000)}],
           NoCheck, Req_schedule_send_newsletter_to_list)

-----------------------------------------------------------------------------
(* Profiles *)

\* the mobile pair taken for supplied when either half is
Check_add_profile_to_list_EitherHalf(a) ==
    IF ~Truthy(a.listid) THEN "listid is required"
    ELSE IF ~Truthy(a.email_address)
            /\ ~(Truthy(a.mobile_number) \/ Truthy(a.mobile_prefix))
    THEN "Provide email_address OR mobile_number+mobile_prefix"
    ELSE Ok

\* if not listid: raise ...; if not email_address and not (mobile_number
\* and mobile_prefix): raise ...
Check_add_profile_to_list(a) ==
    IF ~Truthy(a.listid) THEN "listid is required"
    ELSE IF ~Truthy(a.email_address)
            /\ ~(Truthy(a.mobile_number) /\ Truthy(a.mobile_prefix))
    THEN "Provide email_address OR mobile_number+mobile_prefix"
    ELSE Ok

Req_add_profile_to_list(a) ==
    LET payload == ("listid" :> a.listid)
                   @@ ("data_fields" :> (IF Truthy(a.data_fields) THEN a.data_fields ELSE L(<<>>)))
                   @@ ("confirmed" :> B(a.confirmed))
                   @@ ("mobile_confirmed" :> B(a.mobile_confirmed))
                   @@ ("add_to_autoresponders" :> B(a.add_to_autoresponders))
    IN  [method |-> "POST", path |-> "/Profiles", params |-> None,
         json_body |-> D(IF Truthy(a.email_address)
                         THEN Put(payload, "email_address", a.email_address)
                         ELSE Put(Put(payload, "mobile_number", a.mobile_number),
                                  "mobile_prefix", a.mobile_prefix))]

add_profile_to_list ==
    Invoke("add_profile_to_list",
           [listid : Ids, email_address : Strs, mobile_number : Strs, mobile_prefix : Strs,
            data_fields : {None}, confirmed : {TRUE}, mobile_confirmed : {TRUE},
            add_to_autoresponders : {FALSE}],
           Check_add_profile_to_list, Req_add_profile_to_list)

Check_update_profile(a) ==
    IF ~Truthy(a.profileid) THEN "profileid is required"
    ELSE IF ~Truthy(a.data_fields) THEN "data_fields cannot be empty"
    ELSE Ok

Req_update_profile(a) ==
    [method |-> "PUT", path |-> "/Profiles/UpdateProfile", params |-> None,
     json_body |-> D(("profileid" :> a.profileid) @@ ("data_fields" :> a.data_fields))]

update_profile ==
    Invoke("update_profile", [profileid : Ids, data_fields : Lists],
           Check_update_profile, Req_update_profile)

\* get_profiles_by_list checks nothing before it calls _request
Check_get_profiles_by_list(a) == Ok

Req_get_profiles_by_list(a) ==
    [method |-> "GET", path |-> "/Profiles/GetProfilesByList", json_body |-> None,
     params |-> D(("listid" :> a.listid) @@ ("limit" :> a.limit) @@ ("offset" :> a.offset))]

get_profiles_by_list ==
    Invoke("get_profiles_by_list", [listid : Ids, limit : {I(100)}, offset : {I(0)}],
           Check_get_profiles_by_list, Req_get_profiles_by_list)

\* get_profiles_from_segment checks nothing before it calls _request
Check_get_profiles_from_segment(a) == Ok

Req_get_profiles_from_segment(a) ==
    [method |-> "GET", path |-> "/Profiles/GetProfilesFromSegment", json_body |-> None,
     params |-> D(("segmentid" :> a.segmentid) @@ ("limit" :> a.limit) @@ ("offset" :> a.offset))]

get_profiles_from_segment ==
    Invoke("get_profiles_from_segment", [segmentid : Ids, limit : {I(100)}, offset : {I(0)}],
           Check_get_profiles_from_segment, Req_get_profiles_from_segment)

-----------------------------------------------------------------------------
(* Segments *)

Req_get_segments(a) ==
    LET p == ("segmentid" :> a.segmentid) @@ ("limit" :> a.limit) @@ ("offset" :> a.offset)
    IN  [method |-> "GET", path |-> "/Segments", json_body |-> None,
         params |-> D(IF a.listid # None THEN Put(p, "listid", a.listid) ELSE p)]

get_segments ==
    Invoke("get_segments",
           [segmentid : {I(0)}, listid : {None, I(7)}, limit : {I(100)}, offset : {I(0)}],
           NoCheck, Req_get_segments)

Check_create_segment(a) ==
    IF ~Truthy(a.name) THEN "name is required"
    ELSE IF ~Truthy(a.rules) THEN "rules are required"
    ELSE Ok

Req_create_segment(a) ==
    [method |-> "POST", path |-> "/Segments", params |-> None,
     json_body |-> D(("name" :> a.name) @@ ("rules" :> a.rules) @@ ("connector" :> a.connector))]

Rules == {None, D(EmptyDict), D("Segments" :> L(<<1>>))}

create_segment ==
    Invoke("create_segment", [name : Strs, rules : Rules, connector : {S("and")}],
           Check_create_segment, Req_create_segment)

Check_edit_segment(a) ==
    IF ~Truthy(a.segmentid) THEN "segmentid is required" ELSE Ok

Req_edit_segment(a) ==
    [method |-> "PUT", path |-> "/Segments", params |-> None,
     json_body |-> D(("segmentid" :> a.segmentid) @@ ("name" :> a.name)
                     @@ ("rules" :> a.rules) @@ ("connector" :> a.connector))]

edit_segment ==
    Invoke("edit_segment",
           [segmentid : Ids, name : {S("x")}, rules : {D("Segments" :> L(<<1>>))},
            connector : {S("and")}],
           Check_edit_segment, Req_edit_segment)

Check_delete_segment(a) ==
    IF ~Truthy(a.segmentid) THEN "segmentid is required" ELSE Ok

Req_delete_segment(a) ==
    [method |-> "DELETE", path |-> "/Segments", json_body |-> None,
     params |-> D("segmentid" :> a.segmentid)]

delete_segment ==
    Invoke("delete_segment", [segmentid : Ids], Check_delete_segment, Req_delete_segment)

-----------------------------------------------------------------------------
(* Data fields *)

Req_load_data_fields(a) ==
    [method |-> "GET", path |-> "/DataFields", json_body |-> None,
     params |-> D(("fieldid" :> (IF a.fieldid # None THEN a.fieldid ELSE S("")))
                  @@ ("load_lists" :> BoolStr(a.load_lists))
                  @@ ("limit" :> a.limit) @@ ("offset" :> a.offset))]

load_data_fields ==
    Invoke("load_data_fields",
           [fieldid : Ids, load_lists : {FALSE}, limit : {I(10)}, offset : {I(0)}],
           NoCheck, Req_load_data_fields)

\* the values of field_type the documentation allows, and one it does not
FieldTypes    == {"text", "textarea", "number", "dropdown", "checkbox", "radiobutton", "date"}
FieldTypeArgs == {None, S(""), S("date"), S("bogus")}

\* the optional default_value and settings, added as the code adds them
WithDefaults(p, a) ==
    LET p1 == IF a.default_value # None THEN Put(p, "default_value", a.default_value) ELSE p
    IN  IF a.settings # None THEN Put(p1, "settings", a.settings) ELSE p1

\* if not name or not field_type: raise ValueError(...)
Check_create_data_field(a) ==
    IF ~Truthy(a.name) \/ ~Truthy(a.field_type)
    THEN "name and field_type are required" ELSE Ok

Req_create_data_field(a) ==
    [method |-> "POST", path |-> "/DataFields", params |-> None,
     json_body |-> D(WithDefaults(("name" :> a.name) @@ ("field_type" :> a.field_type), a))]

create_data_field ==
    Invoke("create_data_field",
           [name : Strs, field_type : FieldTypeArgs, default_value : {S("d")},
            settings : {None}],
           Check_create_data_field, Req_create_data_field)

\* if fieldid is None and not name: raise ValueError("Provide fieldid or name")
Check_update_data_field(a) ==
    IF a.fieldid = None /\ ~Truthy(a.name) THEN "Provide fieldid or name" ELSE Ok

Req_update_data_field(a) ==
    LET p1 == IF a.fieldid # None THEN Put(EmptyDict, "fieldid", a.fieldid) ELSE EmptyDict
        p2 == IF Truthy(a.name) THEN Put(p1, "name", a.name) ELSE p1
    IN  [method |-> "PUT", path |-> "/DataFields", params |-> None,
         json_body |-> D(WithDefaults(p2, a))]

update_data_field ==
    Invoke("update_data_field",
           [fieldid : Ids, name : Strs, default_value : {None}, settings : {None}],
           Check_update_data_field, Req_update_data_field)

Check_delete_data_field(a) ==
    IF ~Truthy(a.fieldid) THEN "fieldid is required" ELSE Ok

Req_delete_data_field(a) ==
    [method |-> "DELETE", path |-> "/DataFields", json_body |-> None,
     params |-> D("fieldid" :> a.fieldid)]

delete_data_field ==
    Invoke("delete_data_field", [fieldid : Ids], Check_delete_data_field, Req_delete_data_field)

\* if not listid or not field_ids: raise ValueError(...)
Check_lists_add_data_fields(a) ==
    IF ~Truthy(a.listid) \/ ~Truthy(a.field_ids)
    THEN "listid and field_ids are required" ELSE Ok

Req_lists_add_data_fields(a) ==
    [method |-> "POST", path |-> "/Lists/AddDataFieldsToList", params |-> None,
     json_body |-> D(("listid" :> a.listid) @@ ("data_fields" :> a.field_ids))]

lists_add_data_fields ==
    Invoke("lists_add_data_fields", [listid : Ids, field_ids : Lists],
           Check_lists_add_data_fields, Req_lists_add_data_fields)

Check_lists_remove_data_fields(a) ==
    IF ~Truthy(a.listid) \/ ~Truthy(a.field_ids)
    THEN "listid and field_ids are required" ELSE Ok

Req_lists_remove_data_fields(a) ==
    [method |-> "POST", path |-> "/Lists/RemoveDataFieldsFromList", params |-> None,
     json_body |-> D(("listid" :> a.listid) @@ ("data_fields" :> a.field_ids))]

lists_remove_data_fields ==
    Invoke("lists_remove_data_fields", [listid : Ids, field_ids : Lists],
           Check_lists_remove_data_fields, Req_lists_remove_data_fields)

\* lists_get_data_fields checks nothing before it calls _request
Check_lists_get_data_fields(a) == Ok

Req_lists_get_data_fields(a) ==
    LET p == ("listid" :> a.listid) @@ ("limit" :> a.limit) @@ ("offset" :> a.offset)
    IN  [method |-> "GET", path |-> "/Lists/GetDataFields", json_body |-> None,
         params |-> D(IF Truthy(a.field_type) THEN Put(p, "field_type", a.field_type) ELSE p)]

lists_get_data_fields ==
    Invoke("lists_get_data_fields",
           [listid : Ids, field_type : FieldTypeArgs, limit : {I(100)}, offset : {I(0)}],
           Check_lists_get_data_fields, Req_lists_get_data_fields)

Req_profiles_load_profile_data_fields(a) ==
    LET p1 == IF a.profileid # None THEN Put(EmptyDict, "profileid", a.profileid) ELSE EmptyDict
        p2 == IF a.listid # None THEN Put(p1, "listid", a.listid) ELSE p1
        p3 == IF Truthy(a.email) THEN Put(p2, "email_address", a.email) ELSE p2
        p4 == IF Truthy(a.mobile_number) THEN Put(p3, "mobile_number", a.mobile_number) ELSE p3
    IN  [method |-> "GET", path |-> "/Profiles/LoadProfileDataFields", json_body |-> None,
         params |-> D(IF Truthy(a.mobile_prefix)
                      THEN Put(p4, "mobile_prefix", a.mobile_prefix) ELSE p4)]

profiles_load_profile_data_fields ==
    Invoke("profiles_load_profile_data_fields",
           [profileid : {None, I(7)}, listid : {None}, email : {S("x")},
            mobile_number : {None}, mobile_prefix : {None}],
           NoCheck, Req_profiles_load_profile_data_fields)

-----------------------------------------------------------------------------
(* Unsubscribed profiles *)

Req_get_unsubscribed_profiles(a) ==
    LET p == ("count_only" :> BoolStr(a.count_only)) @@ ("limit" :> a.limit)
             @@ ("offset" :> a.offset)
    IN  [method |-> "GET", path |-> "/Profiles/GetUnsubscribedProfiles", json_body |-> None,
         params |-> D(WithSearch(IF a.listid # None THEN Put(p, "listid", a.listid) ELSE p, a))]

get_unsubscribed_profiles ==
    Invoke("get_unsubscribed_profiles",
           [listid : {None, I(7)}, count_only : {FALSE}, search_type : {S("bogus")},
            search_start_date : {None}, search_end_date : {None},
            limit : {I(100)}, offset : {I(0)}],
           NoCheck, Req_get_unsubscribed_profiles)

\* the values of type get_profiles_sms_unsubscribed accepts
SmsTypes == {"on", "before", "after"}

\* str.lower() on the strings of the model
LowerStr(s) == IF s = "Before" THEN "before" ELSE s

\* t = type.lower() if isinstance(type, str) else type
LowerType(x) == IF x.t = "str" THEN S(LowerStr(x.v)) ELSE x

\* t not in {"on", "before", "after"}
NotAnSmsType(t) == ~(t.t = "str" /\ t.v \in SmsTypes)

\* the limit passed on as given
CapLimit_NoCap(limit) == limit

\* limit > 1000: limit = 1000  (cap to API maximum)
CapLimit(limit) == IF limit > 1000 THEN 1000 ELSE limit

Check_get_profiles_sms_unsubscribed(a) ==
    IF ~Truthy(a.listid) THEN "listid is required"
    ELSE IF a.date = None \/ a.date = S("") THEN "date is required"
    ELSE IF NotAnSmsType(LowerType(a.type)) THEN "type must be one of: on, before, after"
    ELSE IF a.limit.v <= 0 THEN "limit must be > 0"
    ELSE Ok

Req_get_profiles_sms_unsubscribed(a) ==
    [method |-> "GET", path |-> "/Profiles/GetProfilesSMSUnsubscribed", json_body |-> None,
     params |-> D(("listid" :> a.listid) @@ ("date" :> a.date) @@ ("type" :> LowerType(a.type))
                  @@ ("limit" :> I(CapLimit(a.limit.v))) @@ ("offset" :> a.offset))]

get_profiles_sms_unsubscribed ==
    Invoke("get_profiles_sms_unsubscribed",
           [listid : Ids, date : {None, S(""), S("2024-06-01")},
            type : {None, S("on"), S("Before"), S("bogus")},
            limit : {I(n) : n \in {-1, 0, 1, 1000, 1001, 5000}}, offset : {I(0)}],
           Check_get_profiles_sms_unsubscribed, Req_get_profiles_sms_unsubscribed)

-----------------------------------------------------------------------------
(* A direct call of _request with a max_retries of the caller's choice *)

_request ==
    /\ pc = "idle"
    /\ \E d \in BOOLEAN : debug' = d
    /\ UNCHANGED exit_status
    /\ \E mr \in 0..MaxRetriesBound :
         /\ op' = "_request"
         /\ args' = [max_retries |-> I(mr)]
         /\ Enter_request("GET", "/Segments", None, None, mr, 1)
    /\ offset' = 0
    /\ items' = <<>>
    /\ idx' = 1
    /\ out' = <<>>
    /\ pages' = <<>>

-----------------------------------------------------------------------------
(* The program *)

\* the client after __init__: no operation has been invoked
Init ==
    /\ pc = "idle"
    /\ op = "none"
    /\ args = None
    /\ outcome = NoOutcome
    /\ req = NoReq
    /\ max_retries = DefaultMaxRetries
    /\ attempt = 1
    /\ backoff = 1
    /\ resp = NoResp
    /\ sleeps = <<>>
    /\ httpCalls = 0
    /\ only429 = TRUE
    /\ requests = 0
    /\ offset = 0
    /\ items = <<>>
    /\ idx = 1
    /\ out = <<>>
    /\ pages = <<>>
    /\ debug = FALSE
    /\ stdout = <<>>
    /\ exit_status = None

\* the operations main dispatches a command to
CliOps ==
    {"iter_lists", "create_list", "get_opens", "get_clicks", "send_newsletter",
     "schedule_send_newsletter_to_list", "add_profile_to_list", "update_profile",
     "get_profiles_by_list", "get_profiles_from_segment", "get_segments",
     "create_segment", "edit_segment", "delete_segment", "load_data_fields",
     "create_data_field", "update_data_field", "delete_data_field",
     "lists_add_data_fields", "lists_remove_data_fields", "lists_get_data_fields",
     "profiles_load_profile_data_fields", "get_unsubscribes_by_list",
     "get_unsubscribed_profiles", "get_profiles_sms_unsubscribed"}

\* the client method has returned or raised: its locals and those of
\* _request are gone; main is left with args and with out or the exception
FramesGone ==
    /\ req' = NoReq
    /\ max_retries' = DefaultMaxRetries
    /\ attempt' = 1
    /\ backoff' = 1
    /\ resp' = NoResp
    /\ sleeps' = <<>>
    /\ httpCalls' = 0
    /\ only429' = TRUE
    /\ requests' = 0
    /\ offset' = 0
    /\ items' = <<>>
    /\ idx' = 1
    /\ out' = <<>>
    /\ pages' = <<>>

\* main: print(json.dumps(out, indent=2, ensure_ascii=False)), after which
\* main returns and the interpreter ends with status 0
PrintResult ==
    /\ pc = "done" /\ op \in CliOps
    /\ outcome.kind = "return"
    /\ stdout' = Append(stdout, Line("json", outcome.val))
    /\ exit_status' = I(0)
    /\ pc' = "exited"
    /\ FramesGone
    /\ UNCHANGED <<op, args, outcome, debug>>

\* the exit status after the except branch of __main__: nothing follows the
\* print, so the interpreter ends with status 0
StatusAfterError == 0

\* what list(...) had collected printed before the error line
PrintError_WithPartial ==
    /\ pc = "done" /\ op \in CliOps
    /\ outcome.kind # "return"
    /\ stdout' = stdout \o (IF out # <<>> THEN <<Line("json", L(out))>> ELSE <<>>)
                        \o <<Line("Error", outcome.val)>>
    /\ exit_status' = I(StatusAfterError)
    /\ pc' = "exited"
    /\ FramesGone
    /\ UNCHANGED <<op, args, outcome, debug>>

\* __main__: except Exception as ex: print(f"Error: {ex}")
PrintError ==
    /\ pc = "done" /\ op \in CliOps
    /\ outcome.kind # "return"
    /\ stdout' = Append(stdout, Line("Error", outcome.val))
    /\ exit_status' = I(StatusAfterError)
    /\ pc' = "exited"
    /\ FramesGone
    /\ UNCHANGED <<op, args, outcome, debug>>

\* the process has ended, or the caller of a client method has its result
\* (its return value or its exception): the next invocation starts afresh
Return ==
    /\ pc = "exited" \/ (pc = "done" /\ op \notin CliOps)
    /\ pc' = "idle"
    /\ op' = "none"
    /\ args' = None
    /\ outcome' = NoOutcome
    /\ req' = NoReq
    /\ max_retries' = DefaultMaxRetries
    /\ attempt' = 1
    /\ backoff' = 1
    /\ resp' = NoResp
    /\ sleeps' = <<>>
    /\ httpCalls' = 0
    /\ only429' = TRUE
    /\ requests' = 0
    /\ offset' = 0
    /\ items' = <<>>
    /\ idx' = 1
    /\ out' = <<>>
    /\ pages' = <<>>
    /\ debug' = FALSE
    /\ stdout' = <<>>
    /\ exit_status' = None

Next ==
    \/ _request
    \/ get_lists
    \/ iter_lists
    \/ create_list
    \/ get_opens
    \/ get_clicks
    \/ get_unsubscribes_by_list
    \/ send_newsletter
    \/ schedule_send_newsletter_to_list
    \/ add_profile_to_list
    \/ update_profile
    \/ get_profiles_by_list
    \/ get_profiles_from_segment
    \/ get_segments
    \/ create_segment
    \/ edit_segment
    \/ delete_segment
    \/ load_data_fields
    \/ create_data_field
    \/ update_data_field
    \/ delete_data_field
    \/ lists_add_data_fields
    \/ lists_remove_data_fields
    \/ lists_get_data_fields
    \/ profiles_load_profile_data_fields
    \/ get_unsubscribed_profiles
    \/ get_profiles_sms_unsubscribed
    \/ Attempt
    \/ TransportFailure
    \/ IterYield
    \/ IterAdvance
    \/ PrintResult
    \/ PrintError
    \/ Return

Spec == Init /\ [][Next]_vars

\* the interpreter keeps running the operation in progress, and the remote
\* answers every HTTP call
FairSpec == Spec /\ WF_vars(Attempt) /\ WF_vars(IterYield) /\ WF_vars(IterAdvance)

-----------------------------------------------------------------------------
(* Properties of the request executor *)

\* the delay before the i-th retry: 1, 2, 4, ... capped at 30
ExpectedSleep(i) == IF 2^(i - 1) < 30 THEN 2^(i - 1) ELSE 30

\* the exceptions the transport raises
TransportErrors == {"ConnectionError", "Timeout"}

\* the _request call in progress has only seen 429 responses, then a 2xx
Only429Then2xx == requests > 0 /\ only429 /\ resp.status \in 200..299

\* C1, as claimed: for every k >= 0, a _request call that is answered by k
\* 429 responses followed by a 2xx response (with a JSON body) returns the
\* decoded JSON body of the 2xx response, after sleeping 1, 2, 4, ...
\* (capped at 30); stated for the default max_retries = 5.  A call that has
\* ended having received nothing but 429 responses is one whose next answer
\* would have been the 2xx.
C1_AsClaimed ==
    (/\ pc = "done" /\ op # "iter_lists" /\ requests > 0 /\ only429
     /\ max_retries = 5
     /\ outcome.kind \notin TransportErrors
     /\ (resp.status = 429 \/ (resp.status \in 200..299 /\ resp.body.wellformed)))
    => /\ outcome.kind = "return"
       /\ \A i \in 1..Len(sleeps) : sleeps[i] = ExpectedSleep(i)

\* C1, amended: when k < max_retries 429 responses are followed by a 2xx
\* response, _request has slept min(2^(i-1), 30) before the i-th retry,
\* i = 1..k, and, if the 2xx body is JSON, returns its decoded value (a 2xx
\* body that is not JSON raises the Non-JSON MPError); a call answered by
\* max_retries 429 responses ends with the exhausted-retries MPError.
C1_BackoffThenBody ==
    /\ (op # "iter_lists" /\ Only429Then2xx) =>
          /\ httpCalls <= max_retries
          /\ Len(sleeps) = httpCalls - 1
          /\ \A i \in 1..Len(sleeps) : sleeps[i] = ExpectedSleep(i)
          /\ pc = "done"
          /\ resp.body.wellformed => outcome = Returned(resp.body.doc)
          /\ ~resp.body.wellformed =>
                outcome = Raised("MPError", [error |-> "Non-JSON response from",
                                             url |-> req.url])
    /\ (pc = "done" /\ requests > 0 /\ only429 /\ resp.status = 429
        /\ outcome.kind \notin TransportErrors) =>
          /\ httpCalls = max_retries
          /\ outcome.kind = "MPError"
          /\ outcome.val.error = "Failed after N attempts"

\* six 429 responses, sleeps 1 2 4 8 16 30, then a 2xx whose body is returned
C1_Witness ==
    /\ op = "_request" /\ Only429Then2xx /\ pc = "done"
    /\ sleeps = <<1, 2, 4, 8, 16, 30>>
    /\ outcome = Returned(Page(1, 1))

\* C2: a response with a status in {400, 401, 403, 404, 409, 500} ends the
\* _request call at the attempt it is received in, with an MPError that
\* carries the status code and the raw body: the number of HTTP calls is
\* the number of that attempt, and no sleep follows the response.
C2_TerminalFailsAtOnce ==
    resp.status \in {400, 401, 403, 404, 409, 500} =>
        /\ pc = "done"
        /\ outcome.kind = "MPError"
        /\ outcome.val = [error |-> "status error from", status |-> resp.status,
                          url |-> req.url, text |-> resp.body]
        /\ httpCalls = attempt
        /\ Len(sleeps) = httpCalls - 1

\* a 409 received at the third attempt, after two sleeps
C2_Witness ==
    /\ resp.status = 409 /\ attempt = 3 /\ httpCalls = 3 /\ sleeps = <<1, 2>>
    /\ pc = "done" /\ outcome.kind = "MPError" /\ outcome.val.status = 409

\* the response is one _request retries: a 429 or an unexpected status
RetriedStatus(st) ==
    st # 0 /\ st \notin 200..299 /\ st \notin {400, 401, 403, 404, 409, 500}

\* C3: a _request call issues at most max_retries HTTP calls; every 429 and
\* every unexpected status consumes one attempt (while the loop runs, the
\* attempts used are the responses slept on); and when all max_retries
\* attempts returned such statuses the call fails with the MPError
\* "Failed after N attempts" that names the URL.
C3_AttemptCeiling ==
    /\ httpCalls <= max_retries
    /\ pc = "attempt" => (attempt = httpCalls + 1 /\ Len(sleeps) = httpCalls
                          /\ attempt <= max_retries)
    /\ (requests > 0 /\ RetriedStatus(resp.status) /\ outcome.kind \notin TransportErrors) =>
          Len(sleeps) = httpCalls
    /\ (requests > 0 /\ Len(sleeps) = max_retries) =>
          /\ pc = "done"
          /\ outcome = Raised("MPError", [error |-> "Failed after N attempts",
                                          N |-> max_retries, url |-> req.url])

\* five retried responses, not all 429, exhaust the default five attempts
C3_Witness ==
    /\ op = "get_opens" /\ max_retries = 5 /\ httpCalls = 5 /\ Len(sleeps) = 5
    /\ ~only429 /\ resp.status = 429
    /\ pc = "done" /\ outcome.val.error = "Failed after N attempts"

\* C4, as claimed: a transport failure is retried with backoff, and
\* surfaces only as the exhausted-retries failure: no call ends with the
\* transport's exception.
C4_AsClaimed == outcome.kind \notin TransportErrors

\* C4, amended: a transport failure is not retried: the transport's
\* exception leaves _request at the attempt it occurs in, with no sleep
\* after it and no further HTTP call; the loop goes on to a further attempt
\* only after a response.
C4_TransportNotRetried ==
    /\ (outcome.kind \in TransportErrors /\ pc # "exited") =>
          /\ pc = "done"
          /\ httpCalls = attempt
          /\ Len(sleeps) = httpCalls - 1
          /\ outcome.val.url = req.url
    /\ (pc = "attempt" /\ attempt > 1) => RetriedStatus(resp.status)

\* a timeout at the third attempt ends the call after two sleeps
C4_Witness ==
    /\ outcome.kind = "Timeout" /\ pc = "done"
    /\ attempt = 3 /\ httpCalls = 3 /\ sleeps = <<1, 2>>

-----------------------------------------------------------------------------
(* Properties of the pagination iterator *)

\* the items of the pages of the given lengths, in page order (item j of
\* page p is <<p, j>>)
PagesItems(lens) ==
    LET f[n \in 0..Len(lens)] ==
            IF n = 0 THEN <<>> ELSE f[n - 1] \o [j \in 1..lens[n] |-> <<n, j>>]
    IN  f[Len(lens)]

\* every page received so far but the last had exactly ps items, and the
\* last had fewer
FullThenShort(ps) ==
    /\ Len(pages) >= 1
    /\ \A i \in 1..(Len(pages) - 1) : pages[i] = ps
    /\ pages[Len(pages)] < ps

\* C5: when every page but the last has exactly page_size items and the
\* last has fewer, iter_lists yields the concatenation of the pages' items
\* in page order (while it is still yielding: the prefix yielded so far),
\* and the short page is the last listing request.
C5_ConcatenationOfPages ==
    (op = "iter_lists" /\ FullThenShort(args.page_size.v)) =>
        /\ requests = Len(pages)
        /\ pc \in {"yield", "done"}
        /\ pc = "done" => outcome = Returned(L(PagesItems(pages)))
        /\ pc = "yield" =>
              out = SubSeq(PagesItems(pages), 1,
                           Len(PagesItems(SubSeq(pages, 1, Len(pages) - 1))) + idx - 1)

\* the scenario of the specification: page_size 2, a page of two items and
\* a page of one item, three items yielded over two requests
C5_Witness ==
    /\ op = "iter_lists" /\ args.page_size = I(2) /\ pages = <<2, 1>>
    /\ pc = "done" /\ requests = 2
    /\ outcome = Returned(L(<< <<1, 1>>, <<1, 2>>, <<2, 1>> >>))

\* C6: when the first page is empty (its "data" is an empty list, null or
\* absent), iter_lists yields nothing and ends after that one listing
\* request.
C6_EmptyFirstPage ==
    (/\ op = "iter_lists" /\ requests = 1
     /\ resp.status \in 200..299 /\ resp.body.wellformed
     /\ resp.body.doc \in {NoData, NullData, Page(1, 0)}) =>
        /\ pc = "done"
        /\ outcome = Returned(L(<<>>))
        /\ out = <<>>
        /\ pages = <<0>>

\* a first page whose "data" is null, with page_size 0
C6_Witness ==
    /\ op = "iter_lists" /\ args.page_size = I(0) /\ requests = 1
    /\ resp.status = 200 /\ resp.body = Wellformed(NullData)
    /\ pc = "done" /\ outcome = Returned(L(<<>>))

\* C7, as claimed: for every page size and every behaviour of the remote,
\* iter_lists eventually terminates.
C7_AsClaimed == [](op = "iter_lists" => <>(pc \in {"done", "exited"}))

\* C7, amended: for page_size > 0 and a remote whose listing is finite (its
\* pages are empty from some offset on), iter_lists eventually terminates:
\* it ends at the first page that is empty or shorter than page_size, or at
\* a failing request.
C7_FiniteOnFiniteListing ==
    []((op = "iter_lists" /\ args.page_size.v > 0) => <>(pc \in {"done", "exited"}))

\* page_size 1: the iterator has ended after three or more listing requests
C7_Witness ==
    /\ op = "iter_lists" /\ args.page_size = I(1) /\ requests >= 3
    /\ pc = "done" /\ outcome.kind = "return" /\ Len(outcome.val.v) >= 2

-----------------------------------------------------------------------------
(* Properties of the argument checks *)

\* the operation takes a required identifier, and was given zero or none
RequiredIdMissing ==
    \/ /\ op \in {"get_unsubscribes_by_list", "add_profile_to_list", "get_profiles_by_list",
                  "lists_add_data_fields", "lists_remove_data_fields",
                  "lists_get_data_fields", "get_profiles_sms_unsubscribed",
                  "schedule_send_newsletter_to_list"}
       /\ args.listid \in {None, I(0)}
    \/ op = "update_profile" /\ args.profileid \in {None, I(0)}
    \/ /\ op \in {"get_profiles_from_segment", "edit_segment", "delete_segment"}
       /\ args.segmentid \in {None, I(0)}
    \/ op = "delete_data_field" /\ args.fieldid \in {None, I(0)}

\* no _request call was made, so no HTTP call was issued
NothingDispatched == requests = 0 /\ httpCalls = 0 /\ req = NoReq

\* C8, as claimed: every operation that takes a required identifier rejects
\* a zero or empty identifier with ValueError before any HTTP request.
C8_AsClaimed ==
    RequiredIdMissing =>
        (pc \in {"done", "exited"} /\ outcome.kind = "ValueError" /\ NothingDispatched)

\* C9: add_profile_to_list without an email address and without both of
\* mobile number and mobile prefix raises ValueError and issues no HTTP
\* request.
C9_NeitherEmailNorMobile ==
    (/\ op = "add_profile_to_list"
     /\ args.email_address \in {None, S("")}
     /\ (args.mobile_number \in {None, S("")} \/ args.mobile_prefix \in {None, S("")})) =>
        (pc \in {"done", "exited"} /\ outcome.kind = "ValueError" /\ NothingDispatched)

\* a list id and a mobile number, but no prefix and no email
C9_Witness ==
    /\ op = "add_profile_to_list" /\ args.listid = I(7)
    /\ args.email_address = None /\ args.mobile_number = S("x") /\ args.mobile_prefix = None
    /\ outcome = Raised("ValueError",
                        [error |-> "Provide email_address OR mobile_number+mobile_prefix"])
    /\ NothingDispatched

\* the value the dispatched request carries under key k, if any
Sent(k) ==
    IF req.params # None /\ k \in DOMAIN req.params.v THEN req.params.v[k]
    ELSE IF req.json_body # None /\ k \in DOMAIN req.json_body.v THEN req.json_body.v[k]
    ELSE None

\* C10, as claimed: no request is dispatched with a search type, field type
\* or SMS comparison type outside its allowed set.
C10_AsClaimed ==
    requests > 0 =>
        /\ Sent("search_type") # None => Sent("search_type").v \in SearchTypes
        /\ Sent("field_type") # None => Sent("field_type").v \in FieldTypes
        /\ Sent("type") # None => Sent("type").v \in SmsTypes

\* C11: get_profiles_sms_unsubscribed dispatches limit as min(limit, 1000):
\* a request is dispatched only for limit >= 1 and it carries
\* min(limit, 1000); a limit above 1000 is no reason for a rejection (with
\* the other arguments valid, the request is dispatched with limit 1000).
C11_LimitCapped ==
    op = "get_profiles_sms_unsubscribed" =>
        /\ requests > 0 =>
              /\ args.limit.v >= 1
              /\ Sent("limit") = I(Min(args.limit.v, 1000))
        /\ outcome.kind = "ValueError" /\ args.limit.v >= 1 =>
              outcome.val.error # "limit must be > 0"
        /\ (/\ pc # "exited" /\ args.limit.v > 1000 /\ args.listid = I(7)
            /\ args.date = S("2024-06-01") /\ args.type \in {S("on"), S("Before")}) =>
              /\ requests = 1
              /\ Sent("limit") = I(1000)

\* limit 5000 dispatched as 1000 and answered
C11_Witness ==
    /\ op = "get_profiles_sms_unsubscribed" /\ args.limit = I(5000)
    /\ requests = 1 /\ Sent("limit") = I(1000)
    /\ pc = "done" /\ outcome.kind = "return"

-----------------------------------------------------------------------------
(* Further properties of the request executor *)

\* C14: 429 and unexpected statuses share one backoff state: in every
\* _request call, whatever the interleaving of the two, the k-th sleep lasts
\* min(2^(k-1), 30), the delays never decrease, the next delay is the local
\* backoff, and a call starts with backoff 1 whatever the calls before it
\* (earlier pages, earlier operations) slept.
C14_SharedBackoff ==
    /\ \A k \in 1..Len(sleeps) : sleeps[k] = ExpectedSleep(k)
    /\ \A j, k \in 1..Len(sleeps) : j <= k => sleeps[j] <= sleeps[k]
    /\ backoff = ExpectedSleep(Len(sleeps) + 1)
    /\ (pc = "attempt" /\ attempt = 1) => (backoff = 1 /\ sleeps = <<>>)

\* seven retried responses, 429 and unexpected ones mixed, slept on with
\* one doubling delay that reaches the cap
C14_Witness ==
    /\ op = "_request" /\ max_retries = 7 /\ ~only429 /\ resp.status = 429
    /\ sleeps = <<1, 2, 4, 8, 16, 30, 30>>
    /\ pc = "done"

\* the sum of a sequence of numbers
SumSeq(q) ==
    LET f[n \in 0..Len(q)] == IF n = 0 THEN 0 ELSE f[n - 1] + q[n]
    IN  f[Len(q)]

\* the _request call in progress ended with the exhausted-retries MPError
Exhausted ==
    /\ pc = "done" /\ outcome.kind = "MPError"
    /\ outcome.val.error = "Failed after N attempts"

\* C18: _request sleeps once after every retried response, the response to
\* the last attempt included: a call that exhausts its retries has issued
\* max_retries HTTP calls and slept max_retries times (31 time units in all
\* for max_retries = 5), and a call with max_retries = 0 raises the
\* exhausted-retries error without any HTTP call.
C18_SleepAfterEveryRetried ==
    /\ (requests > 0 /\ RetriedStatus(resp.status) /\ outcome.kind \notin TransportErrors) =>
          Len(sleeps) = httpCalls
    /\ Exhausted =>
          /\ httpCalls = max_retries
          /\ Len(sleeps) = max_retries
          /\ outcome.val.N = max_retries
          /\ max_retries = 5 => SumSeq(sleeps) = 31
    /\ (requests > 0 /\ max_retries = 0) => (Exhausted /\ httpCalls = 0 /\ sleeps = <<>>)

\* the default five attempts all answered 429: five sleeps, 31 in all
C18_Witness ==
    /\ Exhausted /\ max_retries = 5 /\ only429 /\ httpCalls = 5
    /\ sleeps = <<1, 2, 4, 8, 16>> /\ SumSeq(sleeps) = 31

-----------------------------------------------------------------------------
(* Further properties of the pagination iterator *)

\* iter_lists has issued its j-th listing request, one of those the
\* observer variables record in full
NthListing(j) == op = "iter_lists" /\ requests = j /\ j >= 1 /\ j <= MaxLog

\* C16, as claimed: the offsets iter_lists sends are 0, page_size,
\* 2*page_size, ... and strictly increasing: the offset of every request
\* after the first is greater than the offset of the request before it.
C16_AsClaimed ==
    \A j \in 2..MaxLog :
        NthListing(j) =>
            /\ Sent("offset") = I((j - 1) * args.page_size.v)
            /\ Sent("offset").v > (j - 2) * args.page_size.v

\* C16, amended: the j-th listing request of iter_lists carries offset
\* (j-1)*page_size and limit page_size (strictly increasing offsets when
\* page_size > 0; with page_size = 0 every request carries offset 0); a
\* request after the first is issued only when the page before it was not
\* empty and had at least page_size items, and only after every item of
\* every earlier page has been yielded, in order.
C16_SequentialPages ==
    \A j \in 1..MaxLog :
        NthListing(j) =>
            /\ offset = (j - 1) * args.page_size.v
            /\ Sent("offset") = I(offset)
            /\ Sent("limit") = args.page_size
            /\ (j >= 2 /\ args.page_size.v > 0) => Sent("offset").v > (j - 2) * args.page_size.v
            /\ (j >= 2 /\ args.page_size.v = 0) => Sent("offset").v = 0
            /\ (j >= 2 /\ pc = "attempt") =>
                  /\ Len(pages) = j - 1
                  /\ pages[j - 1] = Len(items)
                  /\ Len(items) > 0 /\ Len(items) >= args.page_size.v
                  /\ idx = Len(items) + 1
                  /\ out = PagesItems(pages)

\* page_size 1: the third request, offset 2, is issued after the two items
\* of the first two pages have been yielded
C16_Witness ==
    /\ NthListing(3) /\ args.page_size = I(1) /\ pc = "attempt"
    /\ Sent("offset") = I(2) /\ out = << <<1, 1>>, <<2, 1>> >>

\* the pages received so far are those a stable collection of n items
\* gives for limit p: the i-th holds the items (i-1)*p .. i*p - 1 that exist
StablePages(n, p) ==
    \A i \in 1..Len(pages) :
        pages[i] = IF n - (i - 1) * p <= 0 THEN 0 ELSE Min(p, n - (i - 1) * p)

\* C17: over a stable remote collection of n items and with page_size
\* p > 0, iter_lists never issues more than floor(n/p) + 1 requests, and
\* when it returns it has issued exactly floor(n/p) + 1 requests and
\* yielded n items; when n is a positive multiple of p, the last request
\* is one more after the last full page and is answered by an empty page.
C17_RequestsForStableCollection ==
    \A n \in 0..(MaxOffset + MaxPageLen) :
        (op = "iter_lists" /\ args.page_size.v > 0 /\ StablePages(n, args.page_size.v)) =>
            /\ requests <= (n \div args.page_size.v) + 1
            /\ (pc = "done" /\ outcome.kind = "return") =>
                  /\ requests = (n \div args.page_size.v) + 1
                  /\ Len(pages) = requests
                  /\ Len(outcome.val.v) = n
                  /\ outcome.val.v = PagesItems(pages)
                  /\ (n > 0 /\ n % args.page_size.v = 0) =>
                        /\ pages[Len(pages)] = 0
                        /\ pages[Len(pages) - 1] = args.page_size.v

\* four items, page_size 2: two full pages, then a third request answered
\* by an empty page
C17_Witness ==
    /\ op = "iter_lists" /\ args.page_size = I(2) /\ pages = <<2, 2, 0>>
    /\ pc = "done" /\ outcome.kind = "return" /\ Len(outcome.val.v) = 4
    /\ requests = 3

-----------------------------------------------------------------------------
(* Properties of the debug trace and of the output of main *)

\* the number of lines of the given kind printed so far
Printed(kind) == Cardinality({i \in 1..Len(stdout) : stdout[i].line = kind})

\* C13, as claimed: with debug enabled, the request trace is emitted before
\* each HTTP attempt: when a _request call that issued at least one attempt
\* has ended, as many traces have been emitted as attempts were issued.
C13_AsClaimed ==
    (debug /\ requests = 1 /\ pc = "done" /\ httpCalls >= 1) =>
        Printed("Request") = httpCalls

\* C13, amended: with debug enabled, the request trace is emitted once per
\* _request call, before its first attempt and not again before a retry:
\* the traces emitted are as many as the _request calls entered (one per
\* page for iter_lists), whatever the number of attempts; the method and
\* URL are always part of it, the parameters only when there are any, the
\* body only when there is one.  With debug disabled nothing is emitted.
C13_TraceOncePerCall ==
    /\ (debug /\ pc \in {"attempt", "yield", "done"} /\ requests <= MaxLog) =>
          /\ Printed("Request") = requests
          /\ requests = 0 => stdout = <<>>
          /\ requests >= 1 => \E i \in 1..Len(stdout) :
                /\ stdout[i].line = "Request"
                /\ stdout[i].v = <<req.method, req.url>>
                /\ \A j \in (i + 1)..Len(stdout) : stdout[j].line # "Request"
          /\ op # "iter_lists" =>
                /\ Printed("Params") = (IF Truthy(req.params) THEN 1 ELSE 0)
                /\ Printed("Body") = (IF Truthy(req.json_body) THEN 1 ELSE 0)
                /\ Len(stdout) = Printed("Request") + Printed("Params") + Printed("Body")
          /\ op = "iter_lists" => (Printed("Params") = requests /\ Printed("Body") = 0)
    /\ (~debug /\ pc # "exited") => stdout = <<>>

\* one trace for a call that was answered at its third attempt
C13_Witness ==
    /\ debug /\ op = "get_opens" /\ pc = "done" /\ httpCalls = 3
    /\ Printed("Request") = 1 /\ Printed("Params") = 1 /\ Len(stdout) = 2

\* the invocation of a command has failed and the process has ended
FailedInvocation == pc = "exited" /\ outcome.kind # "return"

\* C12, as claimed: when a CLI invocation fails (a local validation error,
\* a terminal API error, a non-JSON response, exhausted retries), an Error
\* line is printed and the process ends with a non-zero exit status.
C12_AsClaimed ==
    (FailedInvocation /\ outcome.kind \in {"ValueError", "MPError"}) =>
        /\ stdout[Len(stdout)].line = "Error"
        /\ exit_status # None
        /\ exit_status.v # 0

\* C15: a failing CLI invocation prints no result: no JSON result line is
\* printed before the invocation has ended, nor when it has failed; a
\* failed invocation prints exactly one Error line, carrying the exception,
\* as its last line; every other line is a line of the debug trace, and
\* there is none when debug is disabled.
C15_NoPartialOutput ==
    /\ pc # "exited" => (Printed("json") = 0 /\ Printed("Error") = 0)
    /\ FailedInvocation =>
          /\ Printed("json") = 0
          /\ Printed("Error") = 1
          /\ stdout[Len(stdout)].line = "Error"
          /\ stdout[Len(stdout)].v = outcome.val
          /\ \A i \in 1..(Len(stdout) - 1) : stdout[i].line \in {"Request", "Params", "Body"}
          /\ ~debug => Len(stdout) = 1
    /\ (pc = "exited" /\ outcome.kind = "return") =>
          /\ Printed("json") = 1 /\ Printed("Error") = 0
          /\ stdout[Len(stdout)].line = "json"
          /\ stdout[Len(stdout)].v = outcome.val

\* the lists command fails at its second page after a first page of two
\* items: with debug enabled two traces and the error line, no result
C15_Witness ==
    /\ FailedInvocation /\ op = "iter_lists" /\ args.page_size = I(2) /\ debug
    /\ outcome.kind = "MPError"
    /\ Printed("Request") = 2 /\ Printed("json") = 0
    /\ stdout[Len(stdout)].line = "Error" /\ Len(stdout) = 5

====
